---------------------------- MODULE Spec2Model ----------------------------
(***************************************************************************)
(* Valido: runtime column validation for functions that take or return     *)
(* Spark DataFrames (valido/valido_decorators.py).                          *)
(*                                                                         *)
(* Two specifications:                                                     *)
(*   SpecCheck  _check_columns applied to every dataframe, column          *)
(*              specification and strict flag within the bounds;           *)
(*   Spec       one call through a stack of df_in / df_out / df_log        *)
(*              wrappers, one step per wrapper entry, body and exit.       *)
(***************************************************************************)
EXTENDS Naturals, Sequences, FiniteSets

VARIABLES
    chk,        \* SpecCheck: the _check_columns call and its outcome
    stack,      \* the decorators applied to the function, outermost first
    args,       \* the caller's positional arguments
    kwargs,     \* the caller's keyword arguments
    fargs,      \* positional arguments being forwarded to the next callee
    fkwargs,    \* keyword arguments being forwarded to the next callee
    pc,         \* "enter" | "body" | "exit" | "done" | "off"
    level,      \* the wrapper whose code runs next (index into stack)
    ret,        \* the value being returned up the stack
    err,        \* the exception propagating to the caller, or NoError
    trace,      \* the checks and the body, in execution order
    calls,      \* the (args, kwargs) of every invocation of the wrapped function
    bodyRet,    \* what each invocation of the wrapped function returned
    out         \* lines printed to standard output

vars == <<chk, stack, args, kwargs, fargs, fkwargs, pc, level, ret, err,
          trace, calls, bodyRet, out>>

---------------------------------------------------------------------------
(* Bounds *)

MaxCols == 2      \* columns of a dataframe in SpecCheck
MaxSpec == 2      \* entries of a column specification in SpecCheck
MaxStack == 2     \* stacked decorators in Spec
MaxArgs == 2      \* positional arguments of a call in Spec

---------------------------------------------------------------------------
(* Values *)

ColNames == {"Brand", "Price", "Year"}
Dtypes == {"string", "int"}
ExpectedDtypes == {"string", "int", "float"}

\* A Python value: its runtime type name and, for a DataFrame, its schema as
\* the sequence of (name, dtype) pairs that df.dtypes exposes.
Value(t, s) == [type |-> t, schema |-> s]
DataFrame(s) == Value("DataFrame", s)
None == Value("NoneType", <<>>)
foobar == Value("str", <<>>)

isinstance_DataFrame(v) == v.type = "DataFrame"

\* df.columns: the ordered column names
columns_of(df) == [i \in 1..Len(df.schema) |-> df.schema[i][1]]
\* df.dtypes: the ordered (name, dtype) pairs
dtypes_of(df) == df.schema

Range(s) == {s[i] : i \in 1..Len(s)}

SeqsUpTo(S, n) == UNION {[1..k -> S] : k \in 0..n}

\* Every dataframe of at most MaxCols columns; Spark allows repeated names.
DataFrames == {DataFrame(s) : s \in SeqsUpTo(ColNames \X Dtypes, MaxCols)}

---------------------------------------------------------------------------
(* Column specifications (ColumnsDef = Union[List, Dict]) *)

\* keys: the names in iteration order; dtypes: the expected dtype of each key
\* of a dict, empty for a list.
NoColumns == [kind |-> "none", keys |-> <<>>, dtypes |-> <<>>]
ListDef(names) == [kind |-> "list", keys |-> names, dtypes |-> <<>>]
DictDef(names, dts) == [kind |-> "dict", keys |-> names, dtypes |-> dts]

Distinct(s) == \A i, j \in 1..Len(s) : s[i] = s[j] => i = j

ListDefs == {ListDef(s) : s \in SeqsUpTo(ColNames, MaxSpec) \ {<<>>}}
DictDefs ==
    UNION {{DictDef(ks, ds) : ds \in [1..Len(ks) -> ExpectedDtypes]} :
           ks \in {s \in SeqsUpTo(ColNames, MaxSpec) \ {<<>>} : Distinct(s)}}

\* `if columns:` is false for None and for an empty list or dict
Truthy(columns) == Len(columns.keys) > 0

---------------------------------------------------------------------------
(* Exceptions *)

NoError == [exc |-> "none", kind |-> "none", column |-> "", actual |-> "",
            expected |-> "", cols |-> <<>>, extra |-> {}, key |-> ""]

\* f"Column {column} missing from DataFrame. Got {_describe_df(df)}"
MissingColumn(column, df) ==
    [NoError EXCEPT !.exc = "AssertionError", !.kind = "MissingColumn",
                    !.column = column, !.cols = columns_of(df)]

\* f"Column {column} has wrong dtype. Was {actual}, expected {dtype}"
DtypeMismatch(column, actual, dtype) ==
    [NoError EXCEPT !.exc = "AssertionError", !.kind = "DtypeMismatch",
                    !.column = column, !.actual = actual, !.expected = dtype]

\* f"DataFrame contained unexpected column(s): {set(df.columns) - set(columns)}"
UnexpectedColumns(df, columns) ==
    [NoError EXCEPT !.exc = "AssertionError", !.kind = "UnexpectedColumns",
                    !.extra = Range(columns_of(df)) \ Range(columns.keys)]

---------------------------------------------------------------------------
(* _check_columns *)

\* dict(df.dtypes): pairs are inserted left to right, a later pair replaces
\* an earlier one of the same name.
RECURSIVE dict_of(_)
dict_of(pairs) ==
    IF pairs = <<>> THEN [k \in {} |-> ""]
    ELSE LET n == Len(pairs)
             rest == dict_of(SubSeq(pairs, 1, n - 1))
         IN [k \in (DOMAIN rest) \cup {pairs[n][1]} |->
                IF k = pairs[n][1] THEN pairs[n][2] ELSE rest[k]]

\* for column in columns: assert column in df.columns
RECURSIVE ListLoop(_, _, _)
ListLoop(df, columns, i) ==
    IF i > Len(columns.keys) THEN NoError
    ELSE IF columns.keys[i] \notin Range(columns_of(df))
         THEN MissingColumn(columns.keys[i], df)
         ELSE ListLoop(df, columns, i + 1)

\* Mutant of DictLoop: the dtype assertion is left out.
RECURSIVE DictLoop_NoDtypeCheck(_, _, _)
DictLoop_NoDtypeCheck(df, columns, i) ==
    IF i > Len(columns.keys) THEN NoError
    ELSE IF columns.keys[i] \notin Range(columns_of(df))
         THEN MissingColumn(columns.keys[i], df)
         ELSE DictLoop_NoDtypeCheck(df, columns, i + 1)

\* for column, dtype in columns.items(): assert presence, then assert dtype
RECURSIVE DictLoop(_, _, _)
DictLoop(df, columns, i) ==
    IF i > Len(columns.keys) THEN NoError
    ELSE LET column == columns.keys[i]
             dtype == columns.dtypes[i]
             col_dtype_dict == dict_of(dtypes_of(df))
         IN IF column \notin Range(columns_of(df))
            THEN MissingColumn(column, df)
            ELSE IF col_dtype_dict[column] # dtype
                 THEN DtypeMismatch(column, col_dtype_dict[column], dtype)
                 ELSE DictLoop(df, columns, i + 1)

\* if strict: assert len(df.columns) == len(columns)
StrictCheck(df, columns, strict) ==
    IF strict /\ Len(columns_of(df)) # Len(columns.keys)
    THEN UnexpectedColumns(df, columns)
    ELSE NoError

\* Mutant of _check_columns: the strict count is asserted before the loops.
_check_columns_StrictFirst(df, columns, strict) ==
    LET e0 == StrictCheck(df, columns, strict)
        e1 == IF columns.kind = "list" THEN ListLoop(df, columns, 1)
              ELSE DictLoop(df, columns, 1)
    IN IF e0 # NoError THEN e0 ELSE e1

\* The exception _check_columns raises, or NoError when it returns.
_check_columns(df, columns, strict) ==
    LET e1 == IF columns.kind = "list" THEN ListLoop(df, columns, 1) ELSE NoError
        e2 == IF e1 # NoError THEN e1
              ELSE IF columns.kind = "dict" THEN DictLoop(df, columns, 1)
              ELSE NoError
    IN IF e2 # NoError THEN e2 ELSE StrictCheck(df, columns, strict)

---------------------------------------------------------------------------
(* SpecCheck: _check_columns on every input within the bounds *)

ChkIdle == [pc |-> "off", df |-> None, columns |-> NoColumns,
            strict |-> FALSE, outcome |-> NoError]

WrapOff ==
    /\ stack = <<>> /\ args = <<>> /\ kwargs = [k \in {} |-> None]
    /\ fargs = <<>> /\ fkwargs = [k \in {} |-> None]
    /\ pc = "off" /\ level = 0 /\ ret = None /\ err = NoError
    /\ trace = <<>> /\ calls = <<>> /\ bodyRet = <<>> /\ out = <<>>

InitCheck ==
    /\ \E df \in DataFrames, columns \in ListDefs \cup DictDefs,
          strict \in BOOLEAN :
          chk = [pc |-> "ready", df |-> df, columns |-> columns,
                 strict |-> strict, outcome |-> NoError]
    /\ WrapOff

CheckColumns ==
    /\ chk.pc = "ready"
    /\ chk' = [chk EXCEPT !.pc = "done",
                          !.outcome = _check_columns(chk.df, chk.columns, chk.strict)]
    /\ UNCHANGED <<stack, args, kwargs, fargs, fkwargs, pc, level, ret, err,
                   trace, calls, bodyRet, out>>

NextCheck == CheckColumns

SpecCheck == InitCheck /\ [][NextCheck]_vars

---------------------------------------------------------------------------
(* Decorators and calls (Spec) *)

\* name=None of df_in and df_log
NoName == "<None>"

df_in(name, columns, strict) ==
    [kind |-> "df_in", name |-> name, columns |-> columns, strict |-> strict,
     include_dtypes |-> FALSE]
df_out(columns, strict) ==
    [kind |-> "df_out", name |-> NoName, columns |-> columns, strict |-> strict,
     include_dtypes |-> FALSE]
df_log(name, include_dtypes) ==
    [kind |-> "df_log", name |-> name, columns |-> NoColumns, strict |-> FALSE,
     include_dtypes |-> include_dtypes]

\* The dataframes of the test fixtures and a one-column projection
basic_df == DataFrame(<<<<"Brand", "string">>, <<"Price", "int">>>>)
brand_df == DataFrame(<<<<"Brand", "string">>>>)

\* The decorator configurations a function is wrapped with
Decorators ==
    { df_in(NoName, NoColumns, FALSE),
      df_in(NoName, ListDef(<<"Brand", "Price">>), FALSE),
      df_in("", NoColumns, FALSE),
      df_in("df", NoColumns, FALSE),
      df_in("df", ListDef(<<"Brand">>), TRUE),
      df_out(NoColumns, FALSE),
      df_out(ListDef(<<"Brand", "Price">>), TRUE),
      df_out(DictDef(<<"Price">>, <<"int">>), FALSE),
      df_log(NoName, FALSE),
      df_log("df", TRUE) }

Stacks == SeqsUpTo(Decorators, MaxStack) \ {<<>>}

\* Argument values, keyword names and the values the wrapped function returns
Values == {basic_df, brand_df, foobar, None}
KwKeys == {"df", "name"}
KwValues == {basic_df, foobar}
\* A keyword "name" is a string; "df" is a dataframe or not
KwargsChoices ==
    {kw \in UNION {[D -> KwValues] : D \in SUBSET KwKeys} :
        "name" \in DOMAIN kw => kw["name"] = foobar}
ReturnValues == {basic_df, brand_df, foobar, None}

func_name == "test_fn"

\* assert isinstance(df, DataFrame), "Wrong parameter type. ... got {type(df).__name__}"
WrongParameterType(v) ==
    [NoError EXCEPT !.exc = "AssertionError", !.kind = "WrongParameterType",
                    !.actual = v.type]
\* assert isinstance(result, DataFrame), "Wrong return type. ... got {type(result)}"
WrongReturnType(v) ==
    [NoError EXCEPT !.exc = "AssertionError", !.kind = "WrongReturnType",
                    !.actual = v.type]
\* kwargs[name] with name absent
MissingKeyword(name) ==
    [NoError EXCEPT !.exc = "KeyError", !.kind = "MissingKeyword", !.key = name]
\* a keyword argument called like _get_parameter's own first parameter:
\* "got multiple values for argument 'name'"
MultipleValues(name) ==
    [NoError EXCEPT !.exc = "TypeError", !.kind = "MultipleValues", !.key = name]

\* The result of a call that may raise
Returned(v) == [raised |-> NoError, value |-> v]
Raised(e) == [raised |-> e, value |-> None]

\* `if not name:` holds for None and for the empty string
not_name(name) == name \in {NoName, ""}

\* _get_parameter(name, *args, **kwargs): name is bound positionally, so a
\* keyword argument "name" among **kwargs cannot be bound.
_get_parameter(name, a, kw) ==
    IF "name" \in DOMAIN kw THEN Raised(MultipleValues("name"))
    ELSE IF not_name(name)
         THEN IF Len(a) = 0 THEN Returned(None) ELSE Returned(a[1])
         ELSE IF name \in DOMAIN kw THEN Returned(kw[name])
              ELSE Raised(MissingKeyword(name))

\* _describe_df(df, include_dtypes)
_describe_df(df, include_dtypes) ==
    [columns |-> columns_of(df),
     with_dtypes |-> include_dtypes,
     dtypes |-> IF include_dtypes
                THEN [i \in 1..Len(dtypes_of(df)) |-> dtypes_of(df)[i][2]]
                ELSE <<>>]

NoShape == [columns |-> <<>>, with_dtypes |-> FALSE, dtypes |-> <<>>]
Line(what, type, shape) ==
    [what |-> what, func |-> func_name, type |-> type, shape |-> shape]

\* _log_input: the lines it prints
_log_input(df, include_dtypes) ==
    <<Line("log_input", df.type, NoShape)>> \o
    (IF isinstance_DataFrame(df)
     THEN <<Line("parameters", df.type, _describe_df(df, include_dtypes))>>
     ELSE <<>>)

\* _log_output: the lines it prints
_log_output(df, include_dtypes) ==
    IF isinstance_DataFrame(df)
    THEN <<Line("returned", df.type, _describe_df(df, include_dtypes))>>
    ELSE <<>>

\* Mutant of df_in_checks: the type assertion sits under `if columns:`.
df_in_checks_TypeUnderColumns(w, a, kw) ==
    LET r == _get_parameter(w.name, a, kw)
        df == r.value
    IN IF r.raised # NoError THEN r.raised
       ELSE IF ~Truthy(w.columns) THEN NoError
       ELSE IF ~isinstance_DataFrame(df) THEN WrongParameterType(df)
       ELSE _check_columns(df, w.columns, w.strict)

\* df_in.wrapper up to its call of func: the exception raised, or NoError
df_in_checks(w, a, kw) ==
    LET r == _get_parameter(w.name, a, kw)
        df == r.value
    IN IF r.raised # NoError THEN r.raised
       ELSE IF ~isinstance_DataFrame(df) THEN WrongParameterType(df)
       ELSE IF Truthy(w.columns) THEN _check_columns(df, w.columns, w.strict)
       ELSE NoError

\* df_out.wrapper after its call of func: the exception raised, or NoError
df_out_checks(w, result) ==
    IF ~isinstance_DataFrame(result) THEN WrongReturnType(result)
    ELSE IF Truthy(w.columns) THEN _check_columns(result, w.columns, w.strict)
    ELSE NoError

\* What df_log.wrapper hands back: it ends without a return statement.
df_log_return(result) == None

\* One entry of the execution trace
Event(op, lvl, raised, val, gave) ==
    [op |-> op, level |-> lvl, raised |-> raised, val |-> val, gave |-> gave]

ChkOff == chk = ChkIdle

Init ==
    /\ ChkOff
    /\ stack \in Stacks
    /\ args \in SeqsUpTo(Values, MaxArgs)
    /\ kwargs \in KwargsChoices
    /\ fargs = args /\ fkwargs = kwargs
    /\ pc = "enter" /\ level = 1
    /\ ret = None /\ err = NoError
    /\ trace = <<>> /\ calls = <<>> /\ bodyRet = <<>> /\ out = <<>>

\* func(*args, **kwargs) from the wrapper at `level`: the next wrapper in, or
\* the decorated function itself
CallFunc ==
    /\ fargs' = fargs /\ fkwargs' = fkwargs
    /\ IF level < Len(stack)
       THEN pc' = "enter" /\ level' = level + 1
       ELSE pc' = "body" /\ level' = level + 1

\* an exception leaves every enclosing wrapper: none of them catches
Raise(e) ==
    /\ err' = e /\ pc' = "done" /\ level' = 0
    /\ UNCHANGED <<fargs, fkwargs>>

\* return from the wrapper at `level` to its caller
Return(v) ==
    /\ ret' = v
    /\ level' = level - 1
    /\ pc' = IF level = 1 THEN "done" ELSE "exit"

Entering(kind) ==
    pc = "enter" /\ level \in 1..Len(stack) /\ stack[level].kind = kind
Exiting(kind) ==
    pc = "exit" /\ level \in 1..Len(stack) /\ stack[level].kind = kind

\* Mutant of EnterDfIn: func is called before anything is checked.
EnterDfIn_CallsFirst ==
    /\ Entering("df_in")
    /\ CallFunc
    /\ UNCHANGED <<chk, stack, args, kwargs, ret, err, trace, calls, bodyRet, out>>

\* df_in.wrapper, to the call of func
EnterDfIn ==
    /\ Entering("df_in")
    /\ LET w == stack[level]
           r == _get_parameter(w.name, fargs, fkwargs)
           e == df_in_checks(w, fargs, fkwargs)
       IN /\ trace' = Append(trace, Event("df_in", level, e, r.value, None))
          /\ IF e # NoError THEN Raise(e) ELSE CallFunc /\ err' = err
    /\ UNCHANGED <<chk, stack, args, kwargs, ret, calls, bodyRet, out>>

\* Mutant of ExitDfIn: the result of func is dropped, as in df_log.
ExitDfIn_NoReturn ==
    /\ Exiting("df_in")
    /\ trace' = Append(trace, Event("df_in_return", level, NoError, ret, None))
    /\ Return(None)
    /\ UNCHANGED <<chk, stack, args, kwargs, fargs, fkwargs, err, calls, bodyRet, out>>

\* df_in.wrapper, `return func(*args, **kwargs)`
ExitDfIn ==
    /\ Exiting("df_in")
    /\ trace' = Append(trace, Event("df_in_return", level, NoError, ret, ret))
    /\ Return(ret)
    /\ UNCHANGED <<chk, stack, args, kwargs, fargs, fkwargs, err, calls, bodyRet, out>>

\* df_out.wrapper, to the call of func: nothing is checked on entry
EnterDfOut ==
    /\ Entering("df_out")
    /\ CallFunc
    /\ UNCHANGED <<chk, stack, args, kwargs, ret, err, trace, calls, bodyRet, out>>

\* df_out.wrapper, from the return of func
ExitDfOut ==
    /\ Exiting("df_out")
    /\ LET w == stack[level]
           e == df_out_checks(w, ret)
       IN IF e # NoError
          THEN /\ trace' = Append(trace, Event("df_out", level, e, ret, None))
               /\ Raise(e) /\ ret' = ret
          ELSE /\ trace' = Append(trace, Event("df_out", level, e, ret, ret))
               /\ Return(ret) /\ UNCHANGED <<err, fargs, fkwargs>>
    /\ UNCHANGED <<chk, stack, args, kwargs, calls, bodyRet, out>>

\* df_log.wrapper, to the call of func
EnterDfLog ==
    /\ Entering("df_log")
    /\ LET w == stack[level]
           r == _get_parameter(w.name, fargs, fkwargs)
       IN /\ trace' = Append(trace, Event("log_input", level, r.raised, r.value, None))
          /\ IF r.raised # NoError
             THEN Raise(r.raised) /\ out' = out
             ELSE /\ out' = out \o _log_input(r.value, w.include_dtypes)
                  /\ CallFunc /\ err' = err
    /\ UNCHANGED <<chk, stack, args, kwargs, ret, calls, bodyRet>>

\* df_log.wrapper, from the return of func
ExitDfLog ==
    /\ Exiting("df_log")
    /\ LET w == stack[level]
           v == df_log_return(ret)
       IN /\ out' = out \o _log_output(ret, w.include_dtypes)
          /\ trace' = Append(trace, Event("log_output", level, NoError, ret, v))
          /\ Return(v)
    /\ UNCHANGED <<chk, stack, args, kwargs, fargs, fkwargs, err, calls, bodyRet>>

\* The decorated function runs and returns some value
Body ==
    /\ pc = "body"
    /\ \E v \in ReturnValues :
          /\ bodyRet' = Append(bodyRet, v)
          /\ trace' = Append(trace, Event("body", level, NoError, None, v))
          /\ ret' = v
    /\ calls' = Append(calls, <<fargs, fkwargs>>)
    /\ pc' = "exit" /\ level' = Len(stack)
    /\ UNCHANGED <<chk, stack, args, kwargs, fargs, fkwargs, err, out>>

Next ==
    \/ EnterDfIn \/ ExitDfIn
    \/ EnterDfOut \/ ExitDfOut
    \/ EnterDfLog \/ ExitDfLog
    \/ Body

Spec == Init /\ [][Next]_vars

---------------------------------------------------------------------------
(* Properties of _check_columns (SpecCheck) *)

ChkDone == chk.pc = "done"
ActualSet == Range(columns_of(chk.df))
SpecSet == Range(chk.columns.keys)

\* The dtype the dataframe reports for a column name: that of the last
\* (name, dtype) pair carrying the name.
ActualDtype(df, name) ==
    LET i == CHOOSE i \in 1..Len(df.schema) :
                 /\ df.schema[i][1] = name
                 /\ \A j \in (i + 1)..Len(df.schema) : df.schema[j][1] # name
    IN df.schema[i][2]

\* Entry i of the specification is violated by the dataframe.
EntryMissing(i) == chk.columns.keys[i] \notin ActualSet
EntryWrongDtype(i) ==
    /\ chk.columns.kind = "dict"
    /\ ~EntryMissing(i)
    /\ ActualDtype(chk.df, chk.columns.keys[i]) # chk.columns.dtypes[i]
EntryViolated(i) == EntryMissing(i) \/ EntryWrongDtype(i)
Entries == 1..Len(chk.columns.keys)
IsFirstViolation(i) ==
    i \in Entries /\ EntryViolated(i) /\ \A j \in 1..(i - 1) : ~EntryViolated(j)

\* C3 (as claimed): whenever _check_columns with strict=True succeeds, the set
\* of the dataframe's column names equals the set of specified names.
C3_StrictAcceptsOnlyExactMatch ==
    (ChkDone /\ chk.strict /\ chk.outcome = NoError) => ActualSet = SpecSet

\* C4 (as claimed): for a dataframe with column set C, list(C) passes the
\* strict check; for a non-empty proper subset S, list(S) passes without
\* strict and fails with UnexpectedColumns listing exactly C \ S with strict.
C4_SubsetLaw ==
    (ChkDone /\ chk.columns.kind = "list" /\ Distinct(chk.columns.keys)) =>
        /\ (SpecSet = ActualSet /\ chk.strict) => chk.outcome = NoError
        /\ (SpecSet \subseteq ActualSet /\ SpecSet # ActualSet) =>
              IF chk.strict
              THEN /\ chk.outcome.kind = "UnexpectedColumns"
                   /\ chk.outcome.extra = ActualSet \ SpecSet
              ELSE chk.outcome = NoError

\* For a mapping with strict=False the check succeeds exactly when every
\* mapped name is a column whose dtype string equals the expected one.
DictPassesIffAllMatch ==
    (chk.outcome = NoError) <=>
        \A i \in Entries :
            /\ chk.columns.keys[i] \in ActualSet
            /\ ActualDtype(chk.df, chk.columns.keys[i]) = chk.columns.dtypes[i]

\* C5 (as claimed): success iff all entries match, and any mapped column that
\* is present with a different dtype makes the failure a DtypeMismatch
\* carrying that column's name, its actual dtype and the expected dtype.
C5_AnyMismatchIsReported ==
    (ChkDone /\ chk.columns.kind = "dict" /\ ~chk.strict) =>
        /\ DictPassesIffAllMatch
        /\ \A i \in Entries : EntryWrongDtype(i) =>
              chk.outcome = DtypeMismatch(chk.columns.keys[i],
                                ActualDtype(chk.df, chk.columns.keys[i]),
                                chk.columns.dtypes[i])

\* C5 (amended): success iff all entries match, and when the first violated
\* entry in specification order is a present column with a different dtype,
\* the failure is the DtypeMismatch of that entry.
C5_FirstMismatchIsReported ==
    (ChkDone /\ chk.columns.kind = "dict" /\ ~chk.strict) =>
        /\ DictPassesIffAllMatch
        /\ \A i \in Entries : (IsFirstViolation(i) /\ EntryWrongDtype(i)) =>
              /\ chk.outcome.exc = "AssertionError"
              /\ chk.outcome.kind = "DtypeMismatch"
              /\ chk.outcome.column = chk.columns.keys[i]
              /\ chk.outcome.actual = ActualDtype(chk.df, chk.columns.keys[i])
              /\ chk.outcome.expected = chk.columns.dtypes[i]

\* C5 witness: a two-entry mapping whose first entry matches and whose second
\* is present with another dtype; the check has reported the second.
C5_Witness ==
    /\ ChkDone /\ chk.columns.kind = "dict" /\ ~chk.strict
    /\ Len(chk.columns.keys) = 2
    /\ ~EntryViolated(1) /\ EntryWrongDtype(2)
    /\ chk.outcome.kind = "DtypeMismatch"
    /\ chk.outcome.column = chk.columns.keys[2]

\* C9: only the first violation in specification order is reported, presence
\* before dtype, and the strict count check is reached only when no entry is
\* violated; with a missing required column the failure is never
\* UnexpectedColumns but the MissingColumn or DtypeMismatch of an entry at or
\* before it.
C9_FirstViolationOnly ==
    ChkDone =>
        /\ \A i \in Entries : IsFirstViolation(i) =>
              /\ chk.outcome.column = chk.columns.keys[i]
              /\ chk.outcome.kind =
                    IF EntryMissing(i) THEN "MissingColumn" ELSE "DtypeMismatch"
        /\ (chk.outcome.kind = "UnexpectedColumns") =>
              (chk.strict /\ \A i \in Entries : ~EntryViolated(i))
        /\ \A i \in Entries : EntryMissing(i) =>
              /\ chk.outcome.kind \in {"MissingColumn", "DtypeMismatch"}
              /\ \E j \in 1..i : chk.outcome.column = chk.columns.keys[j]

\* C9 witness: strict mapping whose first entry has a wrong dtype and whose
\* second entry is missing, on a dataframe with a different column count.
C9_Witness ==
    /\ ChkDone /\ chk.strict /\ chk.columns.kind = "dict"
    /\ Len(chk.columns.keys) = 2 /\ Len(chk.df.schema) = 1
    /\ EntryWrongDtype(1) /\ EntryMissing(2)
    /\ chk.outcome.kind = "DtypeMismatch"

---------------------------------------------------------------------------
(* Properties of the wrappers (Spec) *)

Levels == 1..Len(stack)
Steps == 1..Len(trace)
IsEntry(e) == e.op \in {"df_in", "log_input"}
IsExit(e) == e.op \in {"df_in_return", "df_out", "log_output"}
Done == pc = "done"

\* The parameter a decorator inspects, as section 4.2 of the specification
\* resolves it from the caller's arguments.
NameGiven(w) == w.name \notin {NoName, ""}
FirstPositional == IF Len(args) > 0 THEN args[1] ELSE None
SpecResolved(w) == IF NameGiven(w) THEN kwargs[w.name] ELSE FirstPositional
\* _get_parameter raised instead of yielding a value
ResolutionRaised(e) == e.raised.kind \in {"MissingKeyword", "MultipleValues"}
\* the function wrapped by the decorator at level i has been invoked
InnerInvoked(i) == \E k \in Steps : trace[k].level > i

\* C1 (as claimed): a call through df_log hands back exactly the value the
\* wrapped function returned.
C1_LogReturnsResult ==
    /\ \A k \in Steps : trace[k].op = "log_output" => trace[k].gave = trace[k].val
    /\ (Done /\ err = NoError /\ stack = <<df_log(NoName, FALSE)>>) =>
          ret = bodyRet[1]

\* C2 (as claimed): df_log never raises, whatever the arguments; it prints no
\* input line for a value that is not a dataframe and still invokes the
\* wrapped function exactly once.
C2_LogNeverFails ==
    /\ \A k \in Steps : trace[k].op \in {"log_input", "log_output"} =>
          trace[k].raised = NoError
    /\ (Done /\ \A i \in Levels : stack[i].kind = "df_log") =>
          /\ err = NoError
          /\ Len(calls) = 1
          /\ (~isinstance_DataFrame(FirstPositional) /\ Len(stack) = 1
                /\ stack[1].name = NoName) =>
               \A n \in 1..Len(out) : out[n].what # "parameters"

\* C6: the dataframe type check runs with or without a column specification.
\* The function wrapped by df_in is invoked only if the resolved parameter is
\* a DataFrame; a resolved value of another type raises WrongParameterType
\* naming that type (NoneType when there is nothing to resolve).  df_out
\* returns only a DataFrame; any other result raises WrongReturnType.
C6_TypeCheckAlwaysRuns ==
    \A i \in Levels :
        LET w == stack[i] IN
        /\ w.kind = "df_in" =>
              /\ InnerInvoked(i) =>
                    /\ NameGiven(w) => w.name \in DOMAIN kwargs
                    /\ isinstance_DataFrame(SpecResolved(w))
              /\ \A k \in Steps :
                    (/\ trace[k].op = "df_in" /\ trace[k].level = i
                     /\ ~ResolutionRaised(trace[k])
                     /\ ~isinstance_DataFrame(SpecResolved(w))) =>
                        /\ trace[k].raised.exc = "AssertionError"
                        /\ trace[k].raised.kind = "WrongParameterType"
                        /\ trace[k].raised.actual = SpecResolved(w).type
                        /\ (~NameGiven(w) /\ Len(args) = 0) =>
                              trace[k].raised.actual = "NoneType"
                        /\ err = trace[k].raised /\ Done
                        /\ calls = <<>>
        /\ w.kind = "df_out" =>
              \A k \in Steps : (trace[k].op = "df_out" /\ trace[k].level = i) =>
                  /\ i = Len(stack) => trace[k].val = bodyRet[1]
                  /\ trace[k].raised = NoError =>
                        isinstance_DataFrame(trace[k].val)
                  /\ ~isinstance_DataFrame(trace[k].val) =>
                        /\ trace[k].raised.exc = "AssertionError"
                        /\ trace[k].raised.kind = "WrongReturnType"
                        /\ trace[k].raised.actual = trace[k].val.type
                        /\ err = trace[k].raised /\ Done

\* C6 witness: df_in without a column specification has rejected a
\* positional argument that is not a dataframe; the function never ran.
C6_Witness ==
    /\ Done /\ stack = <<df_in(NoName, NoColumns, FALSE)>>
    /\ args = <<foobar>> /\ kwargs = [k \in {} |-> None]
    /\ err.kind = "WrongParameterType" /\ err.actual = "str"
    /\ calls = <<>>

\* C7: when every check of the df_in and df_out wrappers passes, the wrapped
\* function is invoked exactly once with the caller's own positional and
\* keyword arguments, and each wrapper returns the value it received.
C7_PassThrough ==
    /\ Len(calls) <= 1
    /\ \A k \in Steps :
          (trace[k].op \in {"df_in_return", "df_out"} /\ trace[k].raised = NoError)
              => trace[k].gave = trace[k].val
    /\ (Done /\ err = NoError) =>
          /\ Len(calls) = 1
          /\ calls[1] = <<args, kwargs>>
          /\ (\A i \in Levels : stack[i].kind \in {"df_in", "df_out"}) =>
                ret = bodyRet[1]

\* C7 witness: df_in over df_out, both with a column specification, every
\* check passed and the call has returned the function's dataframe.
C7_Witness ==
    /\ Done /\ err = NoError
    /\ stack = <<df_in(NoName, ListDef(<<"Brand", "Price">>), FALSE),
                 df_out(ListDef(<<"Brand", "Price">>), TRUE)>>
    /\ args = <<basic_df>>
    /\ ret = basic_df /\ Len(calls) = 1

\* C8: stacked wrappers run in nested order.  Entry checks run outermost
\* first and all before the body; exit checks run after the body, innermost
\* first.  A failed entry check is the last thing that runs: no inner check,
\* no body and no exit check follows, and its exception is the one reported.
C8_NestedOrder ==
    /\ \A j, k \in Steps : j < k =>
          /\ (IsEntry(trace[j]) /\ IsEntry(trace[k])) =>
                trace[j].level < trace[k].level
          /\ IsEntry(trace[k]) => IsEntry(trace[j])
          /\ (IsExit(trace[j]) /\ IsExit(trace[k])) =>
                trace[k].level < trace[j].level
          /\ IsExit(trace[j]) => IsExit(trace[k])
    /\ \A k \in Steps :
          /\ IsExit(trace[k]) => \E j \in 1..(k - 1) : trace[j].op = "body"
          /\ \A i \in 1..(trace[k].level - 1) :
                (i \in Levels /\ stack[i].kind \in {"df_in", "df_log"}) =>
                    \E j \in 1..k : /\ IsEntry(trace[j]) /\ trace[j].level = i
                                    /\ (j < k => trace[j].raised = NoError)
          /\ (IsEntry(trace[k]) /\ trace[k].raised # NoError) =>
                /\ k = Len(trace) /\ Done
                /\ err = trace[k].raised
                /\ calls = <<>>
    /\ \A i \in Levels :
          (/\ Done /\ stack[i].kind = "df_in"
           /\ "name" \notin DOMAIN kwargs
           /\ IF NameGiven(stack[i])
              THEN stack[i].name \in DOMAIN kwargs
                   /\ ~isinstance_DataFrame(kwargs[stack[i].name])
              ELSE ~isinstance_DataFrame(FirstPositional)) =>
                /\ calls = <<>>
                /\ \A k \in Steps : IsEntry(trace[k]) /\ trace[k].level <= i
                /\ err = trace[Len(trace)].raised /\ err # NoError

\* C8 witness: two stacked df_in wrappers, the outer one (unnamed) rejects
\* the positional argument although the inner one (named) would have passed.
C8_Witness ==
    /\ Done /\ Len(stack) = 2
    /\ stack[1] = df_in(NoName, NoColumns, FALSE)
    /\ stack[2] = df_in("df", NoColumns, FALSE)
    /\ args = <<foobar>> /\ "df" \in DOMAIN kwargs /\ kwargs["df"] = basic_df
    /\ "name" \notin DOMAIN kwargs
    /\ Len(trace) = 1 /\ trace[1].level = 1
    /\ err.kind = "WrongParameterType" /\ calls = <<>>

\* C10 (as claimed): without a name the resolved value is the first
\* positional argument, or no value when there is none, whatever the keyword
\* arguments; with a name it is the keyword argument of that name, and when
\* that keyword is absent the call fails with MissingKeyword(name) before the
\* wrapped function is invoked.
C10_Resolution ==
    \A k \in Steps :
        LET e == trace[k] IN
        IsEntry(e) =>
            LET w == stack[e.level] IN
            /\ w.name = NoName =>
                  /\ ~ResolutionRaised(e)
                  /\ e.val = FirstPositional
            /\ (NameGiven(w) /\ w.name \in DOMAIN kwargs) =>
                  /\ ~ResolutionRaised(e)
                  /\ e.val = kwargs[w.name]
            /\ (NameGiven(w) /\ w.name \notin DOMAIN kwargs) =>
                  /\ e.raised = MissingKeyword(w.name)
                  /\ err = e.raised /\ Done
                  /\ calls = <<>>

=============================================================================
